---- MODULE Spec2Model ----
(***************************************************************************)
(* Model of network_speedtest.py: perform_speedtest (server selection,     *)
(* throughput trials, fallback ping test, sampling, report),               *)
(* perform_speedtest_with_retries, calculate_packet_loss and               *)
(* calculate_ping_statistics.                                              *)
(*                                                                         *)
(* External capabilities (speedtest.Speedtest, ping3.ping, DNS) are the    *)
(* environment: each call draws its outcome from a small set.              *)
(* Throughput figures are modelled exactly: `x / 1_000_000` is the         *)
(* rational number in lowest terms [num, den], sums of such figures are    *)
(* rationals, and the averages are kept as fractions [num, den] of their   *)
(* operands. The packet loss is computed in binary floating point as the   *)
(* code computes it: a quotient rounded to 53 bits, then a product rounded *)
(* to 53 bits.                                                             *)
(***************************************************************************)
EXTENDS Integers, Sequences, FiniteSets, TLC

(* ---------------- bounds of the model ---------------- *)
MaxTests == 2
MaxRetries == 2
MaxPingRetries == 2
MaxCount == 4
MaxRtt == 2

(* ---------------- program constants ---------------- *)
Mega == 1000000
DefaultCount == 4
StatsCallsPerRun == 3
Percent == 100
Milli == 1000
Prec == 53
Limb == 14

None == "None"
Empty == "Empty"

(* ---------------- the environment's domains ---------------- *)
\* Servers the catalog (st.get_best_server) can return, by identifier.
Servers ==
  [ A |-> [host |-> <<"a", ":", "8">>, name |-> "CityA", country |-> "LandA", latency |-> 12],
    B |-> [host |-> <<"b">>,           name |-> "CityB", country |-> "LandB", latency |-> 30] ]

ServerIds == DOMAIN Servers

FallbackHost == <<"g">>
FallbackAddr == "ip_g"

\* socket.gethostbyname when the lookup succeeds; an unknown name does not resolve.
HostAddr(h) ==
  IF h = <<"a">> THEN "ip_a"
  ELSE IF h = <<"b">> THEN "ip_b"
  ELSE IF h = FallbackHost THEN FallbackAddr
  ELSE None

\* resolve_host_ip: the address, or None on socket.gaierror (the lookup may fail at any call).
resolve_host_ip(h) == {None, HostAddr(h)}

\* An optional number: <<>> is Python's None, <<x>> the number x.
Absent == <<>>
Some(x) == <<x>>

\* ping(): None on timeout, else a round-trip time (seconds; 0 is a float a probe can return).
RTTs == 0 .. MaxRtt
PingOutcomes == {Absent} \cup {Some(r) : r \in RTTs}

\* st.download() / st.upload() with st.results.bytes_*: raw figures in bit/s and bytes
\* (700000 bytes are 0.7 MB: not zero, and not a whole number of MB).
DownloadResults ==
  { [bps |-> 0, bytes |-> 0],
    [bps |-> 50 * Mega, bytes |-> 700000],
    [bps |-> 60 * Mega, bytes |-> 75 * Mega] }
UploadResults ==
  { [bps |-> 0, bytes |-> 0],
    [bps |-> 10 * Mega, bytes |-> 12 * Mega] }

\* What one st.download() or st.upload() can return to perform_speedtest_with_retries,
\* and the subclasses of speedtest.SpeedtestException it can raise.
Measurements == [bps : {0, 500000, 50 * Mega}, bytes : {0, 700000, 62 * Mega}]
SpeedtestExceptions == {"SpeedtestHTTPError", "SpeedtestMissingBestServer"}
TestTypes == {"download", "upload"}

(* ---------------- pure helpers ---------------- *)
MinOf(S) == CHOOSE x \in S : \A y \in S : x <= y

\* host.split(':')[0]
SplitColonFirst(s) ==
  LET idx == {k \in 1 .. Len(s) : s[k] = ":"}
  IN IF idx = {} THEN s ELSE SubSeq(s, 1, MinOf(idx) - 1)

RECURSIVE Gcd(_, _)
Gcd(a, b) == IF b = 0 THEN a ELSE Gcd(b, a % b)

\* the rational a / b (a >= 0, b > 0) in lowest terms, and p + q on rationals
Ratio(a, b) == [num |-> a \div Gcd(a, b), den |-> b \div Gcd(a, b)]
RatioAdd(p, q) == Ratio(p.num * q.den + q.num * p.den, p.den * q.den)

\* x / 1_000_000 (true division)
ToMega(x) == Ratio(x, Mega)

\* Python truthiness of a float, of a float or None, and of a quotient
Truthy(x) == x # 0
TruthyOpt(o) == o # Absent /\ Truthy(o[1])
TruthyRatio(q) == q.num # 0

\* the quotient a / b kept as its two operands (a is an integer or a rational)
Frac(a, b) == [num |-> a, den |-> b]

(* ---------------- binary floating point (Python float) ---------------- *)
\* Numbers wider than a machine integer are kept as their binary digits, most
\* significant first, without leading zeros (<<>> is 0); arithmetic on them goes
\* Limb digits at a time.

\* the w binary digits of n < 2^w
Bits(n, w) == [k \in 1 .. w |-> (n \div 2 ^ (w - k)) % 2]

Zeros(n) == [k \in 1 .. n |-> 0]

\* b without its leading zeros
Strip(b) ==
  LET ones == {k \in 1 .. Len(b) : b[k] = 1}
  IN IF ones = {} THEN <<>> ELSE SubSeq(b, MinOf(ones), Len(b))

\* the digits of a natural number n < 2^31
NatBits(n) == Strip(Bits(n, 31))

RECURSIVE BitsVal(_)
\* the number written by at most Limb digits
BitsVal(b) ==
  IF b = <<>> THEN 0 ELSE 2 * BitsVal(SubSeq(b, 1, Len(b) - 1)) + b[Len(b)]

RECURSIVE BitsTimesCarry(_, _, _)
\* b * k + c, for naturals k and c below 2^16
BitsTimesCarry(b, k, c) ==
  IF b = <<>> THEN NatBits(c)
  ELSE LET w == IF Len(b) < Limb THEN Len(b) ELSE Limb
           t == BitsVal(SubSeq(b, Len(b) - w + 1, Len(b))) * k + c
       IN BitsTimesCarry(SubSeq(b, 1, Len(b) - w), k, t \div 2 ^ w) \o Bits(t % 2 ^ w, w)

\* b * k and b + k, for small naturals k
BitsTimes(b, k) == Strip(BitsTimesCarry(b, k, 0))
BitsPlus(b, k) == Strip(BitsTimesCarry(b, 1, k))

\* a <= b on digit sequences of one length: decided by the first digit that differs
LexLe(a, b) ==
  LET diff == {k \in 1 .. Len(a) : a[k] # b[k]}
  IN diff = {} \/ a[MinOf(diff)] < b[MinOf(diff)]

\* a <= b on digit sequences without leading zeros
BitsLe(a, b) == IF Len(a) # Len(b) THEN Len(a) < Len(b) ELSE LexLe(a, b)

\* A float is [mant, exp]: Prec binary digits mant, the first of them 1, and the
\* value mant * 2^exp; 0.0 has no digits.
FloatZero == [mant |-> <<>>, exp |-> 0]

\* The float nearest to b * 2^e (plus a non-zero amount below the last digit of b when
\* sticky), ties to the even mantissa: IEEE 754 round-to-nearest-even.
RoundBits(b, e, sticky) ==
  IF b = <<>> THEN FloatZero
  ELSE IF Len(b) <= Prec
    THEN [mant |-> b \o Zeros(Prec - Len(b)), exp |-> e - (Prec - Len(b))]
  ELSE LET d == Len(b) - Prec
           kept == SubSeq(b, 1, Prec)
           half == b[Prec + 1] = 1
           rest == sticky \/ \E k \in (Prec + 2) .. Len(b) : b[k] = 1
           up == half /\ (rest \/ kept[Prec] = 1)
           m == IF up THEN BitsPlus(kept, 1) ELSE kept
       IN IF Len(m) > Prec
            THEN [mant |-> SubSeq(m, 1, Prec), exp |-> e + d + 1]
            ELSE [mant |-> m, exp |-> e + d]

\* digit groups after the binary point that a quotient is carried to: two digits more
\* than a mantissa holds, after fewer than Limb leading zeros
FracLimbs == (Prec + 2) \div Limb + 2

RECURSIVE DivLimbs(_, _, _)
\* long division of the remainder r < b by b < 2^Limb: the next n digit groups of
\* the quotient, and the remainder left after them
DivLimbs(r, b, n) ==
  IF n = 0 THEN [bits |-> <<>>, rem |-> r]
  ELSE LET t == r * 2 ^ Limb
           next == DivLimbs(t % b, b, n - 1)
       IN [bits |-> Bits(t \div b, Limb) \o next.bits, rem |-> next.rem]

\* a / b on ints a >= 0, b > 0: the correctly rounded float
FloatDiv(a, b) ==
  LET q == DivLimbs(a % b, b, FracLimbs)
  IN RoundBits(Strip(NatBits(a \div b) \o q.bits), 0 - FracLimbs * Limb, q.rem # 0)

\* x * k for a float x and an int k > 0: the correctly rounded float
FloatTimesInt(x, k) == RoundBits(BitsTimes(x.mant, k), x.exp, FALSE)

\* responses.count(None)
CountNone(s) == Cardinality({k \in 1 .. Len(s) : s[k] = Absent})

\* Mutant: counts the probes that were answered instead of the lost ones.
packet_loss_percentage_Answered(resp, n) ==
  FloatTimesInt(FloatDiv(Len(resp) - CountNone(resp), n), Percent)

\* calculate_packet_loss after the probes: (lost_packets / count) * 100
packet_loss_percentage(resp, n) == FloatTimesInt(FloatDiv(CountNone(resp), n), Percent)

MaxOf(S) == CHOOSE x \in S : \A y \in S : x >= y

RECURSIVE SumOf(_)
\* sum(pings)
SumOf(s) == IF s = <<>> THEN 0 ELSE Head(s) + SumOf(Tail(s))

\* [p * 1000 for p in pings]
ToMillis(s) == [k \in 1 .. Len(s) |-> s[k] * Milli]

\* the 'N/A' marker, and the tuple of four of them
NA == <<>>
Unavailable == [low |-> NA, high |-> NA, avg |-> NA, jitter |-> NA]

\* Mutant: an empty sample is reported as zeros.
ping_statistics_ZeroWhenEmpty(p) ==
  IF p = <<>> THEN [low |-> Some(0), high |-> Some(0), avg |-> Some(Frac(0, 1)), jitter |-> Some(0)]
  ELSE LET ms == ToMillis(p)
           vals == {ms[k] : k \in 1 .. Len(ms)}
       IN [low |-> Some(MinOf(vals)), high |-> Some(MaxOf(vals)),
           avg |-> Some(Frac(SumOf(ms), Len(ms))),
           jitter |-> Some(MaxOf(vals) - MinOf(vals))]

\* Mutant: jitter is taken from the average instead of the minimum.
ping_statistics_JitterFromAvg(p) ==
  IF p = <<>> THEN Unavailable
  ELSE LET ms == ToMillis(p)
           vals == {ms[k] : k \in 1 .. Len(ms)}
       IN [low |-> Some(MinOf(vals)), high |-> Some(MaxOf(vals)),
           avg |-> Some(Frac(SumOf(ms), Len(ms))),
           jitter |-> Some(MaxOf(vals) - (SumOf(ms) \div Len(ms)))]

\* calculate_ping_statistics after the probes, on the list of answers
ping_statistics(p) ==
  IF p = <<>> THEN Unavailable
  ELSE LET ms == ToMillis(p)
           vals == {ms[k] : k \in 1 .. Len(ms)}
       IN [low |-> Some(MinOf(vals)), high |-> Some(MaxOf(vals)),
           avg |-> Some(Frac(SumOf(ms), Len(ms))),
           jitter |-> Some(MaxOf(vals) - MinOf(vals))]

(* ---------------- state ---------------- *)
VARIABLES
  num_tests, retries, ping_retries,   \* arguments of perform_speedtest
  pc,                                 \* position in perform_speedtest
  outcome,                            \* how the run ended
  best_server,                        \* local best_server: None, Empty or a server id
  stBest,                             \* st.best: the server download()/upload() talk to
  sel,                                \* the locals server_host, server_ip, server_name,
                                      \* server_country, server_latency that are bound
  selIter,                            \* index of the selection loop
  i, attempt,                         \* trial index, attempt index of the running trial
  successful_tests,
  total_download_speed, total_upload_speed,
  total_download_data, total_upload_data,
  avg,                                \* the four averages, Absent until computed
  reprobeIter,                        \* index of the generator in the fallback ping test
  statsCalls,                         \* calls of calculate_ping_statistics made so far
  hist,                               \* observations of the run (not program state)
  count, responses, lossPc, lossResult, \* one call of calculate_packet_loss
  statCount, statLog, pings, statPc, statResult, \* one call of calculate_ping_statistics
  test_type, callLog, callPc, callResult \* one call of perform_speedtest_with_retries

cfgVars == <<num_tests, retries, ping_retries>>
selVars == <<best_server, stBest, sel, selIter>>
trialVars == <<i, attempt, successful_tests, total_download_speed, total_upload_speed,
               total_download_data, total_upload_data>>
tailVars == <<avg, reprobeIter, statsCalls>>
lossVars == <<count, responses, lossPc, lossResult>>
statVars == <<statCount, statLog, pings, statPc, statResult>>
callVars == <<test_type, callLog, callPc, callResult>>
vars == <<cfgVars, pc, outcome, selVars, trialVars, tailVars, hist, lossVars, statVars, callVars>>

InitHist ==
  [ catalogQueries |-> 0, selResolves |-> 0, selProbes |-> 0,
    accepted |-> FALSE, firstAccepted |-> FALSE, sameRejected |-> None,
    raised |-> FALSE,
    dlReturned |-> {}, ulTried |-> {},
    trialTargets |-> {},
    selected_ip |-> None, replaced |-> FALSE, reprobes |-> 0, reprobeOk |-> FALSE,
    reprobeAnswered |-> FALSE,
    sampled |-> {} ]

InitRun ==
  /\ pc = "construct"
  /\ outcome = "running"
  /\ best_server = None
  /\ stBest = None
  /\ sel = <<>>
  /\ selIter = 0
  /\ i = 0
  /\ attempt = 0
  /\ successful_tests = 0
  /\ total_download_speed = Ratio(0, 1)
  /\ total_upload_speed = Ratio(0, 1)
  /\ total_download_data = Ratio(0, 1)
  /\ total_upload_data = Ratio(0, 1)
  /\ avg = Absent
  /\ reprobeIter = 0
  /\ statsCalls = 0
  /\ hist = InitHist

LossIdle ==
  /\ count = DefaultCount
  /\ responses = <<>>
  /\ lossPc = "idle"
  /\ lossResult = Absent

StatIdle ==
  /\ statCount = DefaultCount
  /\ statLog = <<>>
  /\ pings = <<>>
  /\ statPc = "idle"
  /\ statResult = Absent

CallIdle ==
  /\ test_type = "download"
  /\ callLog = <<>>
  /\ callPc = "idle"
  /\ callResult = Absent

\* perform_speedtest(num_tests, retries, ping_retries): any integers, none is checked
Init ==
  /\ num_tests \in (-1) .. MaxTests
  /\ retries \in (-1) .. MaxRetries
  /\ ping_retries \in (-1) .. MaxPingRetries
  /\ InitRun
  /\ LossIdle
  /\ StatIdle
  /\ CallIdle

(* ---------------- perform_speedtest: construction ---------------- *)
\* for _ in range(ping_retries): where control goes after iteration k-1
SelLoopNext(k) == IF k < ping_retries THEN "select" ELSE "check_server"

\* st = speedtest.Speedtest()
ConstructOk ==
  /\ pc = "construct"
  /\ pc' = SelLoopNext(0)
  /\ UNCHANGED <<cfgVars, outcome, selVars, trialVars, tailVars, hist, lossVars, statVars, callVars>>

\* except Exception: "Failed to retrieve configuration"; return
ConstructFail ==
  /\ pc = "construct"
  /\ pc' = "done"
  /\ outcome' = "config_failed"
  /\ UNCHANGED <<cfgVars, selVars, trialVars, tailVars, hist, lossVars, statVars, callVars>>

(* ---------------- perform_speedtest: server selection loop ---------------- *)
\* what the run has seen of "the catalog returns the same rejected candidate"
SameRejectedAfter(c) ==
  IF hist.catalogQueries = 0 \/ hist.sameRejected = c THEN c ELSE "Mixed"

\* Mutant: an error of the catalog query ends the run at once.
SelectRaise_Aborts ==
  /\ pc = "select"
  /\ selIter' = selIter + 1
  /\ pc' = "done"
  /\ outcome' = "no_server"
  /\ hist' = [hist EXCEPT !.catalogQueries = @ + 1, !.raised = TRUE,
                          !.sameRejected = "Mixed"]
  /\ UNCHANGED <<cfgVars, best_server, stBest, sel, trialVars, tailVars, lossVars, statVars, callVars>>

\* st.get_best_server() raises: caught by `except Exception`, next iteration
SelectRaise ==
  /\ pc = "select"
  /\ selIter' = selIter + 1
  /\ pc' = SelLoopNext(selIter + 1)
  /\ hist' = [hist EXCEPT !.catalogQueries = @ + 1, !.raised = TRUE,
                          !.sameRejected = "Mixed"]
  /\ UNCHANGED <<cfgVars, outcome, best_server, stBest, sel, trialVars, tailVars, lossVars, statVars, callVars>>

\* st.get_best_server() returns a falsy value: continue
SelectEmpty ==
  /\ pc = "select"
  /\ best_server' = Empty
  /\ selIter' = selIter + 1
  /\ pc' = SelLoopNext(selIter + 1)
  /\ hist' = [hist EXCEPT !.catalogQueries = @ + 1, !.sameRejected = "Mixed"]
  /\ UNCHANGED <<cfgVars, outcome, stBest, sel, trialVars, tailVars, lossVars, statVars, callVars>>

\* the candidate's host does not resolve: continue
SelectDnsFail(c) ==
  /\ pc = "select"
  /\ None \in resolve_host_ip(SplitColonFirst(Servers[c].host))
  /\ best_server' = c
  /\ stBest' = c
  /\ sel' = ("server_host" :> SplitColonFirst(Servers[c].host)) @@ ("server_ip" :> None) @@ sel
  /\ selIter' = selIter + 1
  /\ pc' = SelLoopNext(selIter + 1)
  /\ hist' = [hist EXCEPT !.catalogQueries = @ + 1, !.selResolves = @ + 1,
                          !.sameRejected = SameRejectedAfter(c)]
  /\ UNCHANGED <<cfgVars, outcome, trialVars, tailVars, lossVars, statVars, callVars>>

\* the locals bound by an iteration that got past DNS resolution
SelAssigned(c, ip) ==
  ("server_host" :> SplitColonFirst(Servers[c].host)) @@ ("server_ip" :> ip)
  @@ ("server_name" :> Servers[c].name) @@ ("server_country" :> Servers[c].country)
  @@ ("server_latency" :> Servers[c].latency) @@ sel

\* the host resolves, ping(server_ip) is None: continue
SelectPingFail(c) ==
  /\ pc = "select"
  /\ \E ip \in resolve_host_ip(SplitColonFirst(Servers[c].host)) \ {None} :
       sel' = SelAssigned(c, ip)
  /\ best_server' = c
  /\ stBest' = c
  /\ selIter' = selIter + 1
  /\ pc' = SelLoopNext(selIter + 1)
  /\ hist' = [hist EXCEPT !.catalogQueries = @ + 1, !.selResolves = @ + 1,
                          !.selProbes = @ + 1, !.sameRejected = SameRejectedAfter(c)]
  /\ UNCHANGED <<cfgVars, outcome, trialVars, tailVars, lossVars, statVars, callVars>>

\* Mutant: the accepted candidate does not end the loop (no break).
SelectAccept_NoBreak(c) ==
  /\ pc = "select"
  /\ \E ip \in resolve_host_ip(SplitColonFirst(Servers[c].host)) \ {None} :
       sel' = SelAssigned(c, ip)
  /\ best_server' = c
  /\ stBest' = c
  /\ selIter' = selIter + 1
  /\ pc' = SelLoopNext(selIter + 1)
  /\ hist' = [hist EXCEPT !.catalogQueries = @ + 1, !.selResolves = @ + 1,
                          !.selProbes = @ + 1, !.sameRejected = "Mixed",
                          !.accepted = TRUE,
                          !.firstAccepted = (hist.catalogQueries = 0)]
  /\ UNCHANGED <<cfgVars, outcome, trialVars, tailVars, lossVars, statVars, callVars>>

\* the host resolves and ping(server_ip) is not None: break
SelectAccept(c) ==
  /\ pc = "select"
  /\ \E ip \in resolve_host_ip(SplitColonFirst(Servers[c].host)) \ {None} :
       sel' = SelAssigned(c, ip)
  /\ best_server' = c
  /\ stBest' = c
  /\ selIter' = selIter
  /\ pc' = "check_server"
  /\ hist' = [hist EXCEPT !.catalogQueries = @ + 1, !.selResolves = @ + 1,
                          !.selProbes = @ + 1, !.sameRejected = "Mixed",
                          !.accepted = TRUE,
                          !.firstAccepted = (hist.catalogQueries = 0)]
  /\ UNCHANGED <<cfgVars, outcome, trialVars, tailVars, lossVars, statVars, callVars>>

\* for i in range(num_tests): where control goes before iteration k
TrialLoopNext(k) == IF k < num_tests THEN "download" ELSE "averages"

\* if not best_server: return
NoServer ==
  /\ pc = "check_server"
  /\ best_server \in {None, Empty}
  /\ pc' = "done"
  /\ outcome' = "no_server"
  /\ UNCHANGED <<cfgVars, selVars, trialVars, tailVars, hist, lossVars, statVars, callVars>>

\* best_server is truthy: the totals are zeroed and the trial loop starts
StartTrials ==
  /\ pc = "check_server"
  /\ best_server \notin {None, Empty}
  /\ pc' = TrialLoopNext(0)
  /\ hist' = [hist EXCEPT !.selected_ip = sel.server_ip]
  /\ UNCHANGED <<cfgVars, outcome, selVars, trialVars, tailVars, lossVars, statVars, callVars>>

Selection ==
  \/ SelectRaise
  \/ SelectEmpty
  \/ \E c \in ServerIds : SelectDnsFail(c)
  \/ \E c \in ServerIds : SelectPingFail(c)
  \/ \E c \in ServerIds : SelectAccept(c)
  \/ NoServer
  \/ StartTrials

(* ---------------- perform_speedtest_with_retries, and the trial loop ---------------- *)
\* the iteration ends (continue, or the end of the loop body)
EndIteration ==
  /\ i' = i + 1
  /\ attempt' = 0
  /\ pc' = TrialLoopNext(i + 1)

\* st.download() raises SpeedtestException: next attempt
DownloadRaise ==
  /\ pc = "download"
  /\ attempt < retries
  /\ attempt' = attempt + 1
  /\ hist' = [hist EXCEPT !.trialTargets = @ \cup {stBest}]
  /\ UNCHANGED <<cfgVars, pc, outcome, selVars, i, successful_tests, total_download_speed,
                 total_upload_speed, total_download_data, total_upload_data, tailVars, lossVars, statVars, callVars>>

\* `if download_speed and download_data` on what perform_speedtest_with_retries returned
DownloadCounts(speed, data) == TruthyRatio(speed) /\ TruthyRatio(data)

\* st.download() returns: the measurement is returned to the trial loop, which
\* accumulates it and goes on to the upload, or continues with the next iteration
DownloadReturn(m) ==
  /\ pc = "download"
  /\ attempt < retries
  /\ hist' = [hist EXCEPT !.trialTargets = @ \cup {stBest},
                          !.dlReturned = @ \cup {i}]
  /\ IF DownloadCounts(ToMega(m.bps), ToMega(m.bytes))
       THEN /\ total_download_speed' = RatioAdd(total_download_speed, ToMega(m.bps))
            /\ total_download_data' = RatioAdd(total_download_data, ToMega(m.bytes))
            /\ pc' = "upload"
            /\ attempt' = 0
            /\ i' = i
       ELSE /\ EndIteration
            /\ UNCHANGED <<total_download_speed, total_download_data>>
  /\ UNCHANGED <<cfgVars, outcome, selVars, successful_tests, total_upload_speed,
                 total_upload_data, tailVars, lossVars, statVars, callVars>>

\* Mutant: when the attempts are used up the download is tried again from attempt 0.
DownloadGiveUp_Retries ==
  /\ pc = "download"
  /\ attempt >= retries
  /\ attempt' = 0
  /\ UNCHANGED <<cfgVars, pc, outcome, selVars, i, successful_tests, total_download_speed,
                 total_upload_speed, total_download_data, total_upload_data, tailVars,
                 hist, lossVars, statVars, callVars>>

\* the attempts are used up: (None, None) is returned and the loop continues
DownloadGiveUp ==
  /\ pc = "download"
  /\ attempt >= retries
  /\ EndIteration
  /\ UNCHANGED <<cfgVars, outcome, selVars, successful_tests, total_download_speed,
                 total_upload_speed, total_download_data, total_upload_data, tailVars,
                 hist, lossVars, statVars, callVars>>

\* st.upload() raises SpeedtestException: next attempt
UploadRaise ==
  /\ pc = "upload"
  /\ attempt < retries
  /\ attempt' = attempt + 1
  /\ hist' = [hist EXCEPT !.trialTargets = @ \cup {stBest},
                          !.ulTried = @ \cup {i}]
  /\ UNCHANGED <<cfgVars, pc, outcome, selVars, i, successful_tests, total_download_speed,
                 total_upload_speed, total_download_data, total_upload_data, tailVars, lossVars, statVars, callVars>>

\* st.upload() returns: accumulated if truthy; successful_tests += 1
UploadReturn(m) ==
  /\ pc = "upload"
  /\ attempt < retries
  /\ hist' = [hist EXCEPT !.trialTargets = @ \cup {stBest},
                          !.ulTried = @ \cup {i}]
  /\ IF TruthyRatio(ToMega(m.bps)) /\ TruthyRatio(ToMega(m.bytes))
       THEN /\ total_upload_speed' = RatioAdd(total_upload_speed, ToMega(m.bps))
            /\ total_upload_data' = RatioAdd(total_upload_data, ToMega(m.bytes))
       ELSE UNCHANGED <<total_upload_speed, total_upload_data>>
  /\ successful_tests' = successful_tests + 1
  /\ EndIteration
  /\ UNCHANGED <<cfgVars, outcome, selVars, total_download_speed, total_download_data,
                 tailVars, lossVars, statVars, callVars>>

\* the upload attempts are used up: (None, None); successful_tests += 1 all the same
UploadGiveUp ==
  /\ pc = "upload"
  /\ attempt >= retries
  /\ successful_tests' = successful_tests + 1
  /\ EndIteration
  /\ UNCHANGED <<cfgVars, outcome, selVars, total_download_speed, total_upload_speed,
                 total_download_data, total_upload_data, tailVars, hist, lossVars, statVars, callVars>>

Trials ==
  \/ DownloadRaise
  \/ \E m \in DownloadResults : DownloadReturn(m)
  \/ DownloadGiveUp
  \/ UploadRaise
  \/ \E m \in UploadResults : UploadReturn(m)
  \/ UploadGiveUp

(* ---------------- perform_speedtest: averages and the fallback ping test ---------------- *)
\* Mutant: no return when every trial failed; the run goes on to the fallback ping test.
AllFailed_GoesOn ==
  /\ pc = "averages"
  /\ successful_tests = 0
  /\ pc' = "fallback_test"
  /\ UNCHANGED <<cfgVars, outcome, selVars, trialVars, tailVars, hist, lossVars, statVars, callVars>>

\* if successful_tests == 0: "All tests failed"; return
AllFailed ==
  /\ pc = "averages"
  /\ successful_tests = 0
  /\ pc' = "done"
  /\ outcome' = "all_failed"
  /\ UNCHANGED <<cfgVars, selVars, trialVars, tailVars, hist, lossVars, statVars, callVars>>

\* Mutant: the averages are computed without the successful_tests == 0 check before them.
ComputeAverages_Unguarded ==
  /\ pc = "averages"
  /\ avg' = Some([download_speed |-> Frac(total_download_speed, successful_tests),
                  upload_speed |-> Frac(total_upload_speed, successful_tests),
                  download_data |-> Frac(total_download_data, successful_tests),
                  upload_data |-> Frac(total_upload_data, successful_tests)])
  /\ pc' = "fallback_test"
  /\ UNCHANGED <<cfgVars, outcome, selVars, trialVars, reprobeIter, statsCalls,
                 hist, lossVars, statVars, callVars>>

\* Mutant: the totals are divided by the number of trials asked for.
ComputeAverages_ByTrials ==
  /\ pc = "averages"
  /\ successful_tests # 0
  /\ avg' = Some([download_speed |-> Frac(total_download_speed, num_tests),
                  upload_speed |-> Frac(total_upload_speed, num_tests),
                  download_data |-> Frac(total_download_data, num_tests),
                  upload_data |-> Frac(total_upload_data, num_tests)])
  /\ pc' = "fallback_test"
  /\ UNCHANGED <<cfgVars, outcome, selVars, trialVars, reprobeIter, statsCalls,
                 hist, lossVars, statVars, callVars>>

\* avg_* = total_* / successful_tests
ComputeAverages ==
  /\ pc = "averages"
  /\ successful_tests # 0
  /\ avg' = Some([download_speed |-> Frac(total_download_speed, successful_tests),
                  upload_speed |-> Frac(total_upload_speed, successful_tests),
                  download_data |-> Frac(total_download_data, successful_tests),
                  upload_data |-> Frac(total_upload_data, successful_tests)])
  /\ pc' = "fallback_test"
  /\ UNCHANGED <<cfgVars, outcome, selVars, trialVars, reprobeIter, statsCalls,
                 hist, lossVars, statVars, callVars>>

\* Mutant: the test is inverted, an unanswered probe keeps server_ip.
ReProbe_Inverted(r) ==
  /\ pc = "fallback_test"
  /\ sel.server_ip # None
  /\ reprobeIter < ping_retries
  /\ hist' = [hist EXCEPT !.reprobes = @ + 1, !.reprobeOk = TruthyOpt(r),
                          !.reprobeAnswered = @ \/ r # Absent]
  /\ IF ~ TruthyOpt(r)
       THEN pc' = "packet_loss" /\ UNCHANGED reprobeIter
       ELSE pc' = pc /\ reprobeIter' = reprobeIter + 1
  /\ UNCHANGED <<cfgVars, outcome, selVars, trialVars, avg, statsCalls, lossVars, statVars, callVars>>

\* one ping(server_ip) of any(ping(server_ip) for _ in range(ping_retries)):
\* a truthy answer ends the generator and keeps server_ip
ReProbe(r) ==
  /\ pc = "fallback_test"
  /\ sel.server_ip # None
  /\ reprobeIter < ping_retries
  /\ hist' = [hist EXCEPT !.reprobes = @ + 1, !.reprobeOk = TruthyOpt(r),
                          !.reprobeAnswered = @ \/ r # Absent]
  /\ IF TruthyOpt(r)
       THEN pc' = "packet_loss" /\ UNCHANGED reprobeIter
       ELSE pc' = pc /\ reprobeIter' = reprobeIter + 1
  /\ UNCHANGED <<cfgVars, outcome, selVars, trialVars, avg, statsCalls, lossVars, statVars, callVars>>

\* one ping(server_ip) of the generator raises (ping3 lets OSError through): nothing
\* catches it and the exception leaves perform_speedtest
ReProbeRaise ==
  /\ pc = "fallback_test"
  /\ sel.server_ip # None
  /\ reprobeIter < ping_retries
  /\ hist' = [hist EXCEPT !.reprobes = @ + 1]
  /\ pc' = "done"
  /\ outcome' = "OSError"
  /\ UNCHANGED <<cfgVars, selVars, trialVars, tailVars, lossVars, statVars, callVars>>

\* server_ip is None, or no probe was truthy: server_ip = resolve_host_ip("google.com")
FallbackResolve(ip) ==
  /\ pc = "fallback_test"
  /\ sel.server_ip = None \/ reprobeIter >= ping_retries
  /\ ip \in resolve_host_ip(FallbackHost)
  /\ sel' = ("server_ip" :> ip) @@ sel
  /\ hist' = [hist EXCEPT !.replaced = TRUE]
  /\ pc' = "packet_loss"
  /\ UNCHANGED <<cfgVars, outcome, best_server, stBest, selIter, trialVars, tailVars, lossVars, statVars, callVars>>

(* ---------------- perform_speedtest: sampling and report ---------------- *)
\* calculate_packet_loss(server_ip): the call, sampling server_ip (the figures it
\* computes are those of LossProbe and LossReturn below)
CollectPacketLoss ==
  /\ pc = "packet_loss"
  /\ sel.server_ip # None
  /\ hist' = [hist EXCEPT !.sampled = @ \cup {sel.server_ip}]
  /\ pc' = "ping_stats"
  /\ UNCHANGED <<cfgVars, outcome, selVars, trialVars, avg, reprobeIter, statsCalls, lossVars, statVars, callVars>>

\* a ping(server_ip) of calculate_packet_loss raises: the function catches nothing
\* and the exception leaves perform_speedtest
CollectPacketLossRaise ==
  /\ pc = "packet_loss"
  /\ sel.server_ip # None
  /\ hist' = [hist EXCEPT !.sampled = @ \cup {sel.server_ip}]
  /\ pc' = "done"
  /\ outcome' = "OSError"
  /\ UNCHANGED <<cfgVars, selVars, trialVars, tailVars, lossVars, statVars, callVars>>

\* ping(None) raises in calculate_packet_loss, which catches nothing
SampleNoAddress ==
  /\ pc = "packet_loss"
  /\ sel.server_ip = None
  /\ pc' = "done"
  /\ outcome' = "TypeError"
  /\ UNCHANGED <<cfgVars, selVars, trialVars, tailVars, hist, lossVars, statVars, callVars>>

\* the idle, download and upload calls of calculate_ping_statistics(server_ip)
CollectPingStats ==
  /\ pc = "ping_stats"
  /\ statsCalls' = statsCalls + StatsCallsPerRun
  /\ hist' = [hist EXCEPT !.sampled = @ \cup {sel.server_ip}]
  /\ pc' = "device_info"
  /\ UNCHANGED <<cfgVars, outcome, selVars, trialVars, avg, reprobeIter, lossVars, statVars, callVars>>

\* what can leave get_connection_type, get_internal_ip, get_external_ip,
\* get_device_type, get_location: response.json() raising ValueError (only
\* requests.RequestException is caught), data.get raising AttributeError when the JSON
\* body is not an object, gethostbyname(gethostname()) raising gaierror
InfoExceptions == {"ValueError", "AttributeError", "gaierror"}

\* connection_type, internal_ip, external_ip, device_type, location are all obtained
GatherDeviceInfo ==
  /\ pc = "device_info"
  /\ pc' = "report"
  /\ UNCHANGED <<cfgVars, outcome, selVars, trialVars, tailVars, hist, lossVars, statVars, callVars>>

\* one of the five calls raises: the exception leaves perform_speedtest
GatherDeviceInfoRaises(e) ==
  /\ pc = "device_info"
  /\ pc' = "done"
  /\ outcome' = e
  /\ UNCHANGED <<cfgVars, selVars, trialVars, tailVars, hist, lossVars, statVars, callVars>>

\* the locals the report's f-strings read
ReportReads == {"server_host", "server_ip", "server_latency", "server_name", "server_country"}

\* max_width = max(...): every local it reads is bound; the table is printed and logged
ReportOk ==
  /\ pc = "report"
  /\ ReportReads \subseteq DOMAIN sel
  /\ pc' = "done"
  /\ outcome' = "reported"
  /\ UNCHANGED <<cfgVars, selVars, trialVars, tailVars, hist, lossVars, statVars, callVars>>

\* a local the report reads was never assigned: UnboundLocalError
ReportUnbound ==
  /\ pc = "report"
  /\ ~ (ReportReads \subseteq DOMAIN sel)
  /\ pc' = "done"
  /\ outcome' = "UnboundLocalError"
  /\ UNCHANGED <<cfgVars, selVars, trialVars, tailVars, hist, lossVars, statVars, callVars>>

Finish ==
  \/ AllFailed
  \/ ComputeAverages
  \/ \E r \in PingOutcomes : ReProbe(r)
  \/ ReProbeRaise
  \/ \E ip \in {None, FallbackAddr} : FallbackResolve(ip)
  \/ CollectPacketLoss
  \/ CollectPacketLossRaise
  \/ SampleNoAddress
  \/ CollectPingStats
  \/ GatherDeviceInfo
  \/ \E e \in InfoExceptions : GatherDeviceInfoRaises(e)
  \/ ReportOk
  \/ ReportUnbound

Next == ConstructOk \/ ConstructFail \/ Selection \/ Trials \/ Finish

Spec == Init /\ [][Next]_vars

\* Every call of the environment (catalog, DNS, ping, provider) returns or raises, and
\* the interpreter goes on to the next statement: a step that can be taken is taken.
FairSpec == Spec /\ WF_vars(Next)

(* ---------------- calculate_packet_loss(host_ip, count) ---------------- *)
\* a call with any count >= 0, outside a run
InitLoss ==
  /\ num_tests = 0
  /\ retries = 0
  /\ ping_retries = 0
  /\ InitRun
  /\ count \in 0 .. MaxCount
  /\ responses = <<>>
  /\ lossPc = "probing"
  /\ lossResult = Absent
  /\ StatIdle
  /\ CallIdle

runVars == <<cfgVars, pc, outcome, selVars, trialVars, tailVars, hist>>

\* one ping(host_ip) of the list comprehension over range(count)
LossProbe(r) ==
  /\ lossPc = "probing"
  /\ Len(responses) < count
  /\ responses' = Append(responses, r)
  /\ UNCHANGED <<runVars, callVars, statVars, count, lossPc, lossResult>>

\* one ping(host_ip) raises: the exception leaves calculate_packet_loss
LossProbeRaise ==
  /\ lossPc = "probing"
  /\ Len(responses) < count
  /\ lossPc' = "OSError"
  /\ UNCHANGED <<runVars, callVars, statVars, count, responses, lossResult>>

\* lost_packets = responses.count(None); return (lost_packets / count) * 100
LossReturn ==
  /\ lossPc = "probing"
  /\ Len(responses) >= count
  /\ count # 0
  /\ lossResult' = Some(packet_loss_percentage(responses, count))
  /\ lossPc' = "returned"
  /\ UNCHANGED <<runVars, callVars, statVars, count, responses>>

\* count == 0: lost_packets / count raises ZeroDivisionError
LossZeroDivision ==
  /\ lossPc = "probing"
  /\ Len(responses) >= count
  /\ count = 0
  /\ lossPc' = "ZeroDivisionError"
  /\ UNCHANGED <<runVars, callVars, statVars, count, responses, lossResult>>

NextLoss ==
  \/ \E r \in PingOutcomes : LossProbe(r)
  \/ LossProbeRaise
  \/ LossReturn
  \/ LossZeroDivision

SpecLoss == InitLoss /\ [][NextLoss]_vars

(* ---------------- calculate_ping_statistics(host_ip, count) ---------------- *)
\* a call with any count >= 0, outside a run
InitStats ==
  /\ num_tests = 0
  /\ retries = 0
  /\ ping_retries = 0
  /\ InitRun
  /\ LossIdle
  /\ statCount \in 0 .. MaxCount
  /\ statLog = <<>>
  /\ pings = <<>>
  /\ statPc = "probing"
  /\ statResult = Absent
  /\ CallIdle

\* ping(host_ip) returns: appended to pings unless it is None
StatProbe(r) ==
  /\ statPc = "probing"
  /\ Len(statLog) < statCount
  /\ statLog' = Append(statLog, [raised |-> FALSE, response |-> r])
  /\ pings' = IF r # Absent THEN Append(pings, r[1]) ELSE pings
  /\ UNCHANGED <<runVars, callVars, lossVars, statCount, statPc, statResult>>

\* ping(host_ip) raises: the error is printed and the loop goes on
StatProbeRaise ==
  /\ statPc = "probing"
  /\ Len(statLog) < statCount
  /\ statLog' = Append(statLog, [raised |-> TRUE, response |-> Absent])
  /\ UNCHANGED <<runVars, callVars, lossVars, statCount, pings, statPc, statResult>>

\* after the loop: 'N/A' four times, or low, high, avg, jitter in milliseconds
StatReturn ==
  /\ statPc = "probing"
  /\ Len(statLog) >= statCount
  /\ statResult' = Some(ping_statistics(pings))
  /\ pings' = IF pings = <<>> THEN pings ELSE ToMillis(pings)
  /\ statPc' = "returned"
  /\ UNCHANGED <<runVars, callVars, lossVars, statCount, statLog>>

NextStats ==
  \/ \E r \in PingOutcomes : StatProbe(r)
  \/ StatProbeRaise
  \/ StatReturn

SpecStats == InitStats /\ [][NextStats]_vars

(* ---------------- perform_speedtest_with_retries(st, test_type, retries) ---------------- *)
\* a call with any retries, outside a run; test_type is 'download' or 'upload' as at
\* the two call sites
InitRetries ==
  /\ num_tests = 0
  /\ retries \in (-1) .. MaxRetries
  /\ ping_retries = 0
  /\ InitRun
  /\ LossIdle
  /\ StatIdle
  /\ test_type \in TestTypes
  /\ callLog = <<>>
  /\ callPc = "trying"
  /\ callResult = Absent

callFrame == <<cfgVars, pc, outcome, selVars, i, successful_tests, total_download_speed,
               total_upload_speed, total_download_data, total_upload_data, tailVars,
               hist, lossVars, statVars, test_type>>

\* Mutant: a returned measurement does not end the loop of attempts.
TryReturn_KeepsTrying(m) ==
  /\ callPc = "trying"
  /\ attempt < retries
  /\ callLog' = Append(callLog, [raised |-> FALSE, exc |-> None, m |-> Some(m)])
  /\ callResult' = Some([speed |-> Some(ToMega(m.bps)), data_used |-> Some(ToMega(m.bytes))])
  /\ attempt' = attempt + 1
  /\ UNCHANGED <<callFrame, callPc>>

\* the provider call raises a SpeedtestException: printed, next attempt
TryRaise(e) ==
  /\ callPc = "trying"
  /\ attempt < retries
  /\ callLog' = Append(callLog, [raised |-> TRUE, exc |-> e, m |-> Absent])
  /\ attempt' = attempt + 1
  /\ UNCHANGED <<callFrame, callPc, callResult>>

\* the provider call returns: return speed, data_used
TryReturn(m) ==
  /\ callPc = "trying"
  /\ attempt < retries
  /\ callLog' = Append(callLog, [raised |-> FALSE, exc |-> None, m |-> Some(m)])
  /\ callResult' = Some([speed |-> Some(ToMega(m.bps)), data_used |-> Some(ToMega(m.bytes))])
  /\ callPc' = "returned"
  /\ UNCHANGED <<callFrame, attempt>>

\* range(retries) is used up: "... test failed after N attempts"; return None, None
TryExhausted ==
  /\ callPc = "trying"
  /\ attempt >= retries
  /\ callResult' = Some([speed |-> Absent, data_used |-> Absent])
  /\ callPc' = "returned"
  /\ UNCHANGED <<callFrame, attempt, callLog>>

NextRetries ==
  \/ \E e \in SpeedtestExceptions : TryRaise(e)
  \/ \E m \in Measurements : TryReturn(m)
  \/ TryExhausted

SpecRetries == InitRetries /\ [][NextRetries]_vars

(* ======================= properties ======================= *)
AfterSelection == pc \notin {"construct", "select", "check_server"}
TrialsOver == pc \in {"fallback_test", "packet_loss", "ping_stats", "device_info", "report",
                      "done"}
                /\ outcome \notin {"config_failed", "no_server"}
RaisedOutcomes == {"TypeError", "UnboundLocalError", "OSError"} \cup InfoExceptions
Answered(resp) == {k \in 1 .. Len(resp) : resp[k] # Absent}
Lost(resp) == {k \in 1 .. Len(resp) : resp[k] = Absent}

\* C1 (as claimed): when every catalog query returned the same candidate and that
\* candidate was rejected each time, at most ping_retries queries are made, no
\* throughput attempt goes to the rejected candidate and, the candidate's address
\* staying silent when probed again, only the fallback address is sampled.
C1_FallbackAfterExhaustion ==
  (hist.sameRejected \in ServerIds /\ AfterSelection) =>
     /\ hist.catalogQueries <= ping_retries
     /\ hist.sameRejected \notin hist.trialTargets
     /\ ~ hist.reprobeOk => hist.sampled \subseteq {FallbackAddr}

\* C2: when the first catalog query returned a candidate that resolved and answered
\* its probe, the run makes exactly one catalog query and exactly one selection probe,
\* now and ever after.
C2_EarlyExit ==
  hist.firstAccepted => hist.catalogQueries = 1 /\ hist.selProbes = 1

C2_Witness ==
  /\ hist.firstAccepted
  /\ ping_retries >= 2
  /\ outcome = "reported"

\* C3 (as claimed): in every finished iteration the upload was attempted exactly when
\* the download returned a measurement, and after the loop successful_tests is the
\* number of iterations whose download returned a measurement.
C3_UploadIffDownloadSucceeded ==
  /\ \A k \in 0 .. (i - 1) : (k \in hist.ulTried) <=> (k \in hist.dlReturned)
  /\ TrialsOver => successful_tests = Cardinality(hist.dlReturned)

\* C4 (as claimed): every address sampled for packet loss and latency is the address
\* selection produced: the accepted candidate's, or the fallback address when no
\* candidate was accepted.
C4_AddressFixedAtSelection ==
  \A a \in hist.sampled :
     a = (IF hist.accepted THEN hist.selected_ip ELSE FallbackAddr)

\* C4 (amended): the sampled address is decided after the trials. It is the value the
\* selection loop left in server_ip if that is an address and one of the re-probes
\* made after the trials returned a non-zero round-trip time; otherwise (no address,
\* or ping_retries re-probes without such an answer) it is the address the fallback
\* host resolved to, whether or not a candidate had been accepted.
C4_AddressDecidedAfterTrials ==
  \A a \in hist.sampled :
     /\ successful_tests >= 1
     /\ IF hist.replaced
          THEN /\ a = FallbackAddr
               /\ ~ hist.reprobeOk
               /\ hist.selected_ip = None \/ hist.reprobes = ping_retries
          ELSE /\ a = hist.selected_ip
               /\ hist.reprobeOk
               /\ hist.reprobes <= ping_retries

C4_Witness ==
  /\ hist.accepted
  /\ hist.replaced
  /\ hist.reprobes = ping_retries
  /\ hist.selected_ip \notin {None, FallbackAddr}
  /\ hist.sampled = {FallbackAddr}
  /\ outcome = "reported"

\* C5 (as claimed): a run whose trials are over with successful_tests == 0 still
\* samples packet loss and latency and ends with a result.
C5_SamplesWhenAllFailed ==
  (TrialsOver /\ successful_tests = 0 /\ pc = "done") =>
     hist.sampled # {} /\ outcome = "reported"

\* C5 (amended): a run whose trials are over with successful_tests == 0 has returned:
\* no average is computed, no re-probe is made, nothing is sampled and no result is
\* reported.
C5_AbortsWhenAllFailed ==
  (TrialsOver /\ successful_tests = 0) =>
     /\ pc = "done"
     /\ outcome = "all_failed"
     /\ avg = Absent
     /\ hist.reprobes = 0
     /\ hist.sampled = {}

C5_Witness ==
  /\ outcome = "all_failed"
  /\ num_tests >= 2
  /\ i = num_tests
  /\ hist.trialTargets # {}
  /\ hist.accepted

\* C6: whenever the averages have been computed their divisor successful_tests is not
\* zero, and when no download attempt of the run returned a measurement the trials end
\* with successful_tests = 0 and no average.
C6_NoZeroDivisor ==
  /\ avg # Absent =>
       /\ successful_tests >= 1
       /\ \A f \in DOMAIN avg[1] : avg[1][f].den = successful_tests
  /\ (TrialsOver /\ hist.dlReturned = {}) => successful_tests = 0 /\ avg = Absent

C6_Witness ==
  /\ TrialsOver
  /\ hist.dlReturned = {}
  /\ num_tests >= 2
  /\ retries >= 2
  /\ hist.trialTargets # {}
  /\ avg = Absent

\* C7 (as claimed): once a catalog query has raised, no further catalog query is made.
C7_CatalogErrorIsFatal ==
  [][hist.raised => hist'.catalogQueries = hist.catalogQueries]_vars

\* C7 (amended): only a failed construction of the client ends the run before any
\* catalog query. A catalog query that raises uses up one iteration of the selection
\* loop, which goes on while iterations remain; the run ends for want of a server only
\* after all ping_retries iterations, holding no candidate, and then without trials or
\* sampling.
C7_CatalogErrorUsesOneIteration ==
  /\ outcome = "config_failed" => hist.catalogQueries = 0 /\ pc = "done"
  /\ pc = "select" => selIter = hist.catalogQueries /\ selIter < ping_retries
  /\ outcome = "no_server" =>
       /\ best_server \in {None, Empty}
       /\ hist.catalogQueries = (IF ping_retries > 0 THEN ping_retries ELSE 0)
       /\ hist.trialTargets = {}
       /\ hist.sampled = {}

C7_Witness ==
  /\ hist.raised
  /\ hist.catalogQueries >= 2
  /\ best_server \in ServerIds
  /\ hist.trialTargets # {}
  /\ outcome = "reported"

\* C8 (as claimed): when no catalog query raised and the fallback host resolved
\* whenever it was looked up, the run does not end in an exception.
C8_NeverRaises ==
  (~ hist.raised /\ ~ (hist.replaced /\ sel.server_ip = None)) =>
     outcome \notin RaisedOutcomes

\* C9 (as claimed): with a trial count or a retry budget that is zero or negative,
\* the run makes no catalog query, DNS resolution, probe or throughput attempt.
C9_ConfigRejectedFirst ==
  (num_tests <= 0 \/ retries <= 0 \/ ping_retries <= 0) =>
     /\ hist.catalogQueries = 0
     /\ hist.selResolves = 0
     /\ hist.selProbes = 0
     /\ hist.trialTargets = {}

\* a float x of exponent <= 0 against the rational num / den (num >= 0, den > 0):
\* x * den and num, both scaled by 2^(-x.exp)
ScaledFloat(x, den) == BitsTimes(x.mant, den)
ScaledRatio(x, num) == IF num = 0 THEN <<>> ELSE NatBits(num) \o Zeros(0 - x.exp)
FloatEqRatio(x, num, den) == ScaledFloat(x, den) = ScaledRatio(x, num)
FloatLeRatio(x, num, den) == BitsLe(ScaledFloat(x, den), ScaledRatio(x, num))
\* |x - num / den| <= u units in the last place of x
FloatWithinUlps(x, num, den, u) ==
  /\ BitsLe(ScaledFloat(x, den), BitsPlus(ScaledRatio(x, num), u * den))
  /\ BitsLe(ScaledRatio(x, num), BitsPlus(ScaledFloat(x, den), u * den))
\* n is 2^k for some k
IsPowerOfTwo(n) == \E k \in 0 .. 30 : n = 2 ^ k

\* C10 (as claimed): calculate_packet_loss with count >= 1 never issues more than
\* count probes, returns after exactly count of them, and returns exactly
\* 100 * lost / count, a value between 0 and 100, where lost is the number of probes
\* answered None.
C10_PacketLoss ==
  /\ Len(responses) <= count
  /\ lossPc = "returned" =>
       /\ count >= 1
       /\ Len(responses) = count
       /\ lossResult[1].exp <= 0
       /\ FloatEqRatio(lossResult[1], Percent * Cardinality(Lost(responses)), count)
       /\ FloatLeRatio(lossResult[1], Percent, 1)

\* C10 (amended): calculate_packet_loss with count >= 1 never issues more than count
\* probes and returns after exactly count of them. What it returns is the float
\* product by 100 of the float quotient lost / count: a value between 0 and 100,
\* within two units in the last place of 100 * lost / count, equal to it when count is
\* a power of two or when no probe or every probe was lost, and different from the
\* float nearest to 100 * lost / count for count = 3 with one or two probes lost.
C10_PacketLossRounded ==
  /\ Len(responses) <= count
  /\ lossPc = "returned" =>
       LET lost == Cardinality(Lost(responses))
           x == lossResult[1]
       IN /\ count >= 1
          /\ Len(responses) = count
          /\ x.exp <= 0
          /\ FloatLeRatio(x, Percent, 1)
          /\ FloatWithinUlps(x, Percent * lost, count, 2)
          /\ (IsPowerOfTwo(count) \/ lost \in {0, count}) =>
                FloatEqRatio(x, Percent * lost, count)
          /\ (count = 3 /\ lost \in {1, 2}) =>
                /\ x # FloatDiv(Percent * lost, count)
                /\ FloatLeRatio(x, Percent * lost, count)

C10_Witness ==
  /\ lossPc = "returned"
  /\ count = 3
  /\ Cardinality(Lost(responses)) = 1
  /\ Cardinality(Answered(responses)) = count - 1
  /\ ~ FloatEqRatio(lossResult[1], Percent, count)
  /\ lossResult[1].exp = 6 - Prec

Succeeded(log) == {k \in 1 .. Len(log) : ~ log[k].raised /\ log[k].response # Absent}
RttsMs(log) == {log[k].response[1] * Milli : k \in Succeeded(log)}
RECURSIVE SumRtt(_, _)
SumRtt(log, K) ==
  IF K = {} THEN 0
  ELSE LET k == CHOOSE x \in K : TRUE IN log[k].response[1] + SumRtt(log, K \ {k})
StatFields == {"low", "high", "avg", "jitter"}

\* C11: calculate_ping_statistics makes all count probes, a probe that raises counting
\* as a failed sample; it returns the 'N/A' marker in all four fields exactly when no
\* probe returned a round-trip time, and otherwise four numbers, the average being a
\* quotient by the number of answers, which is then at least 1.
C11_UnavailableIffNoAnswer ==
  /\ Len(statLog) <= statCount
  /\ statPc = "returned" =>
       /\ Len(statLog) = statCount
       /\ (Succeeded(statLog) = {}) <=> (statResult[1] = Unavailable)
       /\ Succeeded(statLog) = {} => \A f \in StatFields : statResult[1][f] = NA
       /\ Succeeded(statLog) # {} =>
            /\ \A f \in StatFields : statResult[1][f] # NA
            /\ statResult[1].avg[1].den = Cardinality(Succeeded(statLog))

C11_Witness ==
  /\ statPc = "returned"
  /\ statCount >= 2
  /\ Succeeded(statLog) = {}
  /\ \E k \in 1 .. Len(statLog) : statLog[k].raised
  /\ \E k \in 1 .. Len(statLog) : ~ statLog[k].raised
  /\ statResult[1] = Unavailable

C13_RejectedNeverRetried ==
  hist.sameRejected \in ServerIds => hist.selResolves <= 1 /\ hist.selProbes <= 1

Max0(n) == IF n > 0 THEN n ELSE 0
Raises(log) == {k \in 1 .. Len(log) : log[k].raised}

\* C14: perform_speedtest_with_retries makes at most `retries` provider attempts, none
\* after an attempt that returned; it returns normally, with the measurement of the
\* attempt that returned (in Mbps and MB), and with (None, None) exactly when `retries`
\* attempts were made and every one raised a SpeedtestException, of whatever subclass.
C14_RetryBudget ==
  /\ Len(callLog) <= Max0(retries)
  /\ \A k \in 1 .. Len(callLog) - 1 : callLog[k].raised
  /\ callPc \in {"idle", "trying", "returned"}
  /\ callPc = "returned" =>
       LET res == callResult[1]
           allRaised == Len(callLog) = Max0(retries) /\ Raises(callLog) = 1 .. Len(callLog)
       IN /\ (res.speed = Absent) <=> allRaised
          /\ (res.data_used = Absent) <=> allRaised
          /\ ~ allRaised =>
               /\ res.speed = Some(ToMega(callLog[Len(callLog)].m[1].bps))
               /\ res.data_used = Some(ToMega(callLog[Len(callLog)].m[1].bytes))

C14_Witness ==
  /\ callPc = "returned"
  /\ retries >= 2
  /\ Len(callLog) = 2
  /\ callLog[1].raised
  /\ ~ callLog[2].raised
  /\ callResult[1].speed = Some(Ratio(1, 2))
  /\ callResult[1].data_used = Some(Ratio(7, 10))

\* C15 (as claimed): a download attempt that returns a measurement makes the iteration
\* go on to the upload, whatever the figures returned.
C15_ReturnedDownloadCounts ==
  [][(pc = "download" /\ i \in hist'.dlReturned) => (pc' = "upload" /\ i' = i)]_vars

RatioLe(p, q) == p.num * q.den <= q.num * p.den
RatioTimes(q, k) == Ratio(q.num * k, q.den)
MinRatio(S) == CHOOSE x \in S : \A y \in S : RatioLe(x, y)
MaxRatio(S) == CHOOSE x \in S : \A y \in S : RatioLe(y, x)
DownloadSpeeds ==
  {ToMega(m.bps) : m \in {r \in DownloadResults : DownloadCounts(ToMega(r.bps), ToMega(r.bytes))}}
UploadSpeeds == {ToMega(m.bps) : m \in UploadResults}

\* C16: once computed, each average is its total over successful_tests, which is at
\* least 1; the download average lies between the least and the greatest download
\* figure accumulated, the upload average between 0 and the greatest upload figure;
\* and every iteration that leaves the upload adds 1 to successful_tests, adding
\* nothing to the upload total when the upload attempts were used up.
C16_AveragesOverSuccessfulTests ==
  /\ [](avg # Absent =>
          /\ successful_tests >= 1
          /\ avg[1].download_speed = Frac(total_download_speed, successful_tests)
          /\ avg[1].upload_speed = Frac(total_upload_speed, successful_tests)
          /\ avg[1].download_data = Frac(total_download_data, successful_tests)
          /\ avg[1].upload_data = Frac(total_upload_data, successful_tests)
          /\ RatioLe(RatioTimes(MinRatio(DownloadSpeeds), successful_tests), total_download_speed)
          /\ RatioLe(total_download_speed, RatioTimes(MaxRatio(DownloadSpeeds), successful_tests))
          /\ RatioLe(Ratio(0, 1), total_upload_speed)
          /\ RatioLe(total_upload_speed, RatioTimes(MaxRatio(UploadSpeeds), successful_tests)))
  /\ [][(pc = "upload" /\ pc' # "upload") =>
          /\ successful_tests' = successful_tests + 1
          /\ total_download_speed' = total_download_speed
          /\ attempt >= retries => total_upload_speed' = total_upload_speed]_vars

C16_Witness ==
  /\ outcome = "reported"
  /\ num_tests = 2
  /\ successful_tests = 2
  /\ avg[1].download_speed = Frac(ToMega(110 * Mega), 2)
  /\ avg[1].upload_speed = Frac(ToMega(20 * Mega), 2)
  /\ ~ hist.replaced

\* C17: every run ends. The selection loop makes at most ping_retries catalog queries.
\* Download and upload attempts are made only in an iteration i < num_tests at an
\* attempt index < retries, and after an attempt at (i, attempt) the next one of the
\* same direction is at (i, attempt + 1) or in a later iteration: no pair is used
\* twice, so each direction makes at most num_tests * retries attempts. The fallback
\* ping test makes at most ping_retries probes.
C17_Terminates ==
  /\ <>(pc = "done")
  /\ [](/\ hist.catalogQueries <= Max0(ping_retries)
        /\ selIter <= Max0(ping_retries)
        /\ hist.reprobes <= Max0(ping_retries)
        /\ 0 <= i /\ i <= Max0(num_tests)
        /\ 0 <= attempt /\ attempt <= Max0(retries)
        /\ pc \in {"download", "upload"} => i < num_tests)
  /\ [][/\ pc = "download" =>
             IF attempt < retries
               THEN \/ pc' = "download" /\ i' = i /\ attempt' = attempt + 1
                    \/ pc' = "upload" /\ i' = i /\ attempt' = 0
                    \/ i' = i + 1 /\ attempt' = 0
               ELSE i' = i + 1 /\ attempt' = 0
        /\ pc = "upload" =>
             IF attempt < retries
               THEN \/ pc' = "upload" /\ i' = i /\ attempt' = attempt + 1
                    \/ i' = i + 1 /\ attempt' = 0
               ELSE i' = i + 1 /\ attempt' = 0
        /\ i' >= i]_vars

C17_Witness ==
  /\ pc = "done"
  /\ outcome = "all_failed"
  /\ num_tests >= 2
  /\ retries >= 2
  /\ ping_retries >= 2
  /\ hist.catalogQueries = ping_retries
  /\ hist.dlReturned = {}
  /\ i = num_tests

\* C18 (as claimed): once the fallback ping test of a run with a successful trial is
\* over, server_ip has been replaced by the fallback host's address exactly when
\* selection left no address or ping_retries re-probes were made and none was
\* answered (no probe having raised); and no re-probe follows an answered one.
C18_ReplacedIffReprobesFail ==
  /\ (TrialsOver /\ successful_tests >= 1 /\ pc # "fallback_test"
        /\ outcome \notin RaisedOutcomes) =>
        (hist.replaced <=>
           \/ hist.selected_ip = None
           \/ hist.reprobes = Max0(ping_retries) /\ ~ hist.reprobeAnswered)
  /\ hist.reprobeAnswered => pc # "fallback_test"

\* C19 (as claimed): what a run reports about the server is one catalog candidate's
\* host, address, name, country and latency, and the throughput attempts went to that
\* candidate.
C19_ReportOfOneCandidate ==
  outcome = "reported" =>
     \E c \in ServerIds :
        /\ sel.server_host = SplitColonFirst(Servers[c].host)
        /\ sel.server_ip = HostAddr(sel.server_host)
        /\ sel.server_name = Servers[c].name
        /\ sel.server_country = Servers[c].country
        /\ sel.server_latency = Servers[c].latency
        /\ hist.trialTargets \subseteq {c}
====
